---- MODULE Spec2Model ----
(***************************************************************************)
(* Link quarantine / restore workflows of                                  *)
(* chapters/batteries-included/event-automation.py, together with the      *)
(* webhook front end that submits alert_receiver runs.                     *)
(*                                                                         *)
(* Texts (interface names, CLI commands, device output) are TLA+ strings;  *)
(* the substring tests and the regular expression of the code are          *)
(* computed character by character.                                        *)
(***************************************************************************)
EXTENDS Integers, Sequences, FiniteSets, TLC

VARIABLES dev,        \* device configuration: link -> [admin, desc]
          lastMut,    \* history: who last changed the admin state of a link
          amActive,   \* label sets the alert backend reports in state "active"
          silences,   \* silences of the alert backend, silence id = index
          sot,        \* source of truth: interface id -> status
          rcv,        \* alert_receiver invocations, one per slot
          run,        \* the workflow run a slot is executing
          inbox,      \* entry-point calls that have not been made yet
          flips,      \* number of alert state changes so far
          opCmds,     \* number of operator commands so far
          chk         \* input and result of a stand-alone function call

vars == <<dev, lastMut, amActive, silences, sot, rcv, run, inbox, flips, opCmds, chk>>

-----------------------------------------------------------------------------
(* Bounds *)

NumSlots == 2          \* alert_receiver / direct flow invocations in one behaviour
MaxAlertFlips == 1     \* changes of the alert backend's alert states
MaxOperatorCmds == 1   \* operator commands on the device
MaxWaitPolls == 2      \* polls of wait_until_alert_inactive before its deadline
MaxLldpRetries == 1    \* sleeps of lldp_peer before its deadline
MaxWaitBudget == 6     \* largest wait_s, in seconds, lldp_peer is called with (the flow passes 6)
MaxSilences == 2       \* silences the alert backend lists to expire_silences_for_link

Slots == 1..NumSlots

-----------------------------------------------------------------------------
(* Text helpers: Python str methods used by the code *)

UpperChars == <<"A","B","C","D","E","F","G","H","I","J","K","L","M",
                "N","O","P","Q","R","S","T","U","V","W","X","Y","Z">>
LowerChars == <<"a","b","c","d","e","f","g","h","i","j","k","l","m",
                "n","o","p","q","r","s","t","u","v","w","x","y","z">>
Digits == {"0","1","2","3","4","5","6","7","8","9"}
Alpha == {UpperChars[i] : i \in 1..26} \cup {LowerChars[i] : i \in 1..26}
Whitespace == {" ", "\t", "\n", "\r"}

\* str.lower() on one character
LowerChar(c) ==
    IF \E i \in 1..26 : UpperChars[i] = c
    THEN LowerChars[CHOOSE i \in 1..26 : UpperChars[i] = c]
    ELSE c

\* str.lower()
RECURSIVE str_lower(_)
str_lower(s) ==
    IF Len(s) <= 1 THEN LowerChar(s)
    ELSE LET h == Len(s) \div 2
         IN  str_lower(SubSeq(s, 1, h)) \o str_lower(SubSeq(s, h + 1, Len(s)))

\* Python's  sub in text
str_in(sub, text) ==
    \E i \in 1..(Len(text) - Len(sub) + 1) : SubSeq(text, i, i + Len(sub) - 1) = sub

\* str.startswith
str_startswith(s, prefix) ==
    Len(s) >= Len(prefix) /\ SubSeq(s, 1, Len(prefix)) = prefix

\* str.strip()
\* (a singleton set binds an intermediate text, so that it is computed once)
str_lstrip(s) ==
    LET keep == {i \in 1..Len(s) : SubSeq(s, i, i) \notin Whitespace}
    IN  IF keep = {} THEN ""
        ELSE SubSeq(s, CHOOSE i \in keep : \A j \in keep : i <= j, Len(s))
str_rstrip(s) ==
    LET keep == {i \in 1..Len(s) : SubSeq(s, i, i) \notin Whitespace}
    IN  IF keep = {} THEN ""
        ELSE SubSeq(s, 1, CHOOSE i \in keep : \A j \in keep : i >= j)
str_strip(s) ==
    CHOOSE r \in {str_rstrip(u) : u \in {str_lstrip(v) : v \in {s}}} : TRUE

\* IFACE_TOKEN_RE = ^[A-Za-z][A-Za-z0-9/-]+ : length of the match at the
\* start of s, 0 when the expression does not match
TokenChars == Alpha \cup Digits \cup {"/", "-"}
TokenRun(s, i) ==
    LET stop == {j \in i..(Len(s) + 1) : j = Len(s) + 1 \/ SubSeq(s, j, j) \notin TokenChars}
    IN  (CHOOSE j \in stop : \A k \in stop : j <= k) - i
IFACE_TOKEN_RE(s) ==
    IF s # "" /\ SubSeq(s, 1, 1) \in Alpha /\ TokenRun(s, 2) >= 1
    THEN 1 + TokenRun(s, 2) ELSE 0

\* canon_iface that strips and never takes the leading token
canon_iface_strip_only(s) == str_strip(s)

canon_iface(s) ==
    CHOOSE r \in {IF IFACE_TOKEN_RE(t) > 0 THEN SubSeq(t, 1, IFACE_TOKEN_RE(t)) ELSE t
                  : t \in {str_strip(s)}} : TRUE

-----------------------------------------------------------------------------
(* Names *)

SENTINEL == "QUARANTINED_BY_PREFECT"
PeerInterfaceFlapping == "PeerInterfaceFlapping"
NONE == "None"

Devices == {"r1"}
IfNames == {"Ethernet2", "Ethernet3"}
Links == Devices \X IfNames

\* interface label values an alert can carry
Labels == {"Ethernet2", "Ethernet3"}
AlertNames == {PeerInterfaceFlapping, "BgpDown"}
SotIds == {"if-1"}

-----------------------------------------------------------------------------
(* The device (Arista EOS): command interpreter and show commands *)

\* one configuration command applied to interface l of device state d
ApplyCmd(d, l, cmd) ==
    IF l \notin Links THEN d
    ELSE IF cmd = "shutdown" THEN [d EXCEPT ![l].admin = "down"]
    ELSE IF cmd = "no shutdown" THEN [d EXCEPT ![l].admin = "up"]
    ELSE IF str_startswith(cmd, "description ")
         THEN [d EXCEPT ![l].desc = SubSeq(cmd, Len("description ") + 1, Len(cmd))]
    ELSE d

\* conn.send_config_set([ "interface X", c1, c2, ... ]) on device dv
RECURSIVE ApplyCmds(_, _, _)
ApplyCmds(d, l, cmds) ==
    IF cmds = <<>> THEN d ELSE ApplyCmds(ApplyCmd(d, l, Head(cmds)), l, Tail(cmds))
send_config_set(d, dv, cmds) ==
    LET ifn == SubSeq(Head(cmds), Len("interface ") + 1, Len(Head(cmds)))
    IN  ApplyCmds(d, <<dv, ifn>>, Tail(cmds))

\* the (device, interface) a command batch is pushed to
config_target(dv, cmds) ==
    <<dv, SubSeq(Head(cmds), Len("interface ") + 1, Len(Head(cmds)))>>

\* reply to "show running-config interface X"
running_config(d, l) ==
    IF l \notin Links THEN "% Invalid input"
    ELSE "interface " \o l[2] \o "\n"
         \o (IF d[l].desc # "" THEN "   description " \o d[l].desc \o "\n" ELSE "")
         \o (IF d[l].admin = "down" THEN "   shutdown\n" ELSE "")

\* reply to "show interface X"
show_interface(d, l) ==
    IF l \notin Links THEN "% Invalid input"
    ELSE l[2] \o " is "
         \o (IF d[l].admin = "down"
             THEN "administratively down, line protocol is down (disabled)\n"
             ELSE "up, line protocol is up (connected)\n")
         \o "  Hardware is Ethernet\n"
         \o (IF d[l].desc # "" THEN "  Description: " \o d[l].desc \o "\n" ELSE "")

-----------------------------------------------------------------------------
(* Link State Mutator and idempotency read *)

\* is_already_quarantined_text deciding on the sentinel alone
is_already_quarantined_text_tag_only(cfg, out) ==
    \/ str_in("quarantined_by_prefect", str_lower(cfg))
    \/ str_in("quarantined_by_prefect", str_lower(out))

\* the decision of is_already_quarantined on the two device replies
is_already_quarantined_text(cfg, out) ==
    LET text == str_lower(out)
    IN  \/ str_in("shutdown", str_lower(cfg)) /\ str_in(str_lower("quarantined_by_prefect"), str_lower(cfg))
        \/ /\ \/ str_in("admin state is down", text)
              \/ str_in("administratively down", text)
              \/ str_in("is administratively down", text)
           /\ str_in("quarantined_by_prefect", text)

is_already_quarantined(d, device, interface) ==
    LET l == <<device, canon_iface(interface)>>
    IN  is_already_quarantined_text(running_config(d, l), show_interface(d, l))

\* the command batch of quarantine_side without the description
quarantine_cmds_no_tag(interface) ==
    << "interface " \o canon_iface(interface), "shutdown" >>

\* the command batch of quarantine_side
quarantine_cmds(interface) ==
    << "interface " \o canon_iface(interface), "shutdown", "description QUARANTINED_BY_PREFECT" >>

\* the command batch of restore_side
restore_cmds(interface) ==
    << "interface " \o canon_iface(interface), "no shutdown", "no shutdown" >>

-----------------------------------------------------------------------------
(* Peer discovery *)

\* the abbreviation table of _aliases_for_iface
AliasTable ==
    << <<"Ethernet", "Et">>, <<"GigabitEthernet", "Gi">>, <<"TenGigabitEthernet", "Te">>,
       <<"FortyGigabitEthernet", "Fo">>, <<"HundredGigE", "Hu">>, <<"Management", "Ma">>,
       <<"Vlan", "Vlan">>, <<"Port-Channel", "Po">>, <<"Loopback", "Lo">> >>

\* _aliases_for_iface without the abbreviation table
aliases_for_iface_name_only(ifname) == {ifname}

\* _aliases_for_iface(ifname), as a set
aliases_for_iface(ifname) ==
    {ifname} \cup
    {AliasTable[k][2] \o SubSeq(ifname, Len(AliasTable[k][1]) + 1, Len(ifname)) :
        k \in {j \in 1..Len(AliasTable) : str_startswith(ifname, AliasTable[j][1])}}

\* one neighbor row of the device's LLDP table
LldpRow(port, ndev, nport) == [port |-> port, neighborDevice |-> ndev, neighborPort |-> nport]

\* _json_attempt / _table_attempt over the rows of the LLDP table: the first
\* complete row whose canonical local port is an alias; <<>> stands for None
lldp_scan(rows, aliases) ==
    LET hit == {i \in 1..Len(rows) :
                   /\ rows[i].port # "" /\ rows[i].neighborDevice # "" /\ rows[i].neighborPort # ""
                   /\ canon_iface(rows[i].port) \in aliases}
    IN  IF hit = {} THEN <<>>
        ELSE LET i == CHOOSE j \in hit : \A k \in hit : j <= k
             IN  <<rows[i].neighborDevice, canon_iface(rows[i].neighborPort)>>

\* res = _json_attempt(conn) or _table_attempt(conn)
lldp_attempt(rows, aliases) ==
    IF lldp_scan(rows, aliases) # <<>> THEN lldp_scan(rows, aliases)
    ELSE lldp_scan(rows, aliases)

\* LLDP tables of r1 seen by the workflow runs
LldpTables == { <<>>, <<LldpRow("Et2", "r2", "Ethernet1")>> }

-----------------------------------------------------------------------------
(* Alert Backend Adapter *)

\* the exact-match filter query of alert_active_in_am / wait_until_alert_inactive
alert_active_in_am(am, alertname, device, interface) ==
    \E a \in am : a = <<alertname, device, interface>>

\* silence_body with a matcher for another alert name
silence_body_other_alertname(device, interface) ==
    [alertname |-> "BgpDown", device |-> device,
     interface |-> interface, state |-> "active"]

\* the body create_quarantine_silence posts
silence_body(device, interface) ==
    [alertname |-> "PeerInterfaceFlapping", device |-> device,
     interface |-> interface, state |-> "active"]

\* expire_to_del that does not look at the state of a silence
expire_to_del_any_state(sil, device, interface) ==
    { i \in 1..Len(sil) : /\ sil[i].alertname = "PeerInterfaceFlapping"
                          /\ sil[i].device = device
                          /\ sil[i].interface = interface }

\* ids of the silences expire_silences_for_link selects for deletion
expire_to_del(sil, device, interface) ==
    { i \in 1..Len(sil) : /\ sil[i].state = "active"
                          /\ sil[i].alertname = "PeerInterfaceFlapping"
                          /\ sil[i].device = device
                          /\ sil[i].interface = interface }

\* DELETE /api/v2/silence/{sid} accepted by the backend
ExpireAll(sil, ids) ==
    [i \in 1..Len(sil) |-> IF i \in ids THEN [sil[i] EXCEPT !.state = "expired"] ELSE sil[i]]

-----------------------------------------------------------------------------
(* Workflow runs *)

NoRun ==
    [pc |-> "none", flow |-> "none", device |-> "", interface |-> "", lid |-> NONE,
     alertname |-> "", status |-> "", silence_id |-> 0, inactive |-> "unset",
     idem |-> "unset", fresh |-> "unset", polls |-> 0,
     nQuar |-> 0, nRest |-> 0, nSil |-> 0, nSot |-> 0, nDel |-> 0,
     sotWrote |-> NONE, record |-> "none", deleted |-> 0,
     lldp |-> "unset", peer |-> <<>>, lldpTries |-> 0, sess |-> 0, cfgTo |-> {},
     failedAt |-> "none"]

\* entry of quarantine_link_flow / restore_link_flow: canonicalise, first step
NewRun(flow, device, interface, lid, alertname, status) ==
    [NoRun EXCEPT !.pc = "idem", !.flow = flow, !.device = device,
                  !.interface = canon_iface(interface), !.lid = lid,
                  !.alertname = alertname, !.status = status]

NoRcv == [pc |-> "free", status |-> "", alertname |-> "", alerts |-> <<>>, idx |-> 0,
          call |-> 0]

\* number of the next entry-point call (webhook delivery or direct flow call)
NextCall == 1 + Cardinality({rcv[s].call : s \in Slots} \ {0})

BoolStr(b) == IF b THEN "true" ELSE "false"

\* the "Status in SoT" line of a summary record
SummarySoT(record) ==
    IF record = "quarantine" THEN "quarantined"
    ELSE IF record = "restore" THEN "active" ELSE NONE

InFlight(s) == run[s].pc \notin {"none", "done", "failed"}
RunLink(s) == <<run[s].device, run[s].interface>>

FreeSlots == {s \in Slots : rcv[s].pc = "free"}
LowestFree(k) == {s \in FreeSlots : Cardinality({t \in FreeSlots : t < s}) < k}

-----------------------------------------------------------------------------
(* Entry-point calls and initial states *)

InitDescriptions == {"", "uplink"}

NoChk == [op |-> "none", admin |-> "up", desc |-> "", tagInCfg |-> TRUE, res |-> "unset"]

Alerts(labels) == [i \in 1..Len(labels) |-> [device |-> "r1", interface |-> labels[i]]]

\* an Alertmanager webhook carrying one alert group
Webhook(status, alertname, labels) ==
    [kind |-> "webhook", flow |-> "", status |-> status, alertname |-> alertname,
     alerts |-> Alerts(labels), lid |-> NONE]

\* a call of quarantine_link_flow / restore_link_flow with its parameters
FlowCall(flow, label, lid, alertname) ==
    [kind |-> "flow", flow |-> flow,
     status |-> IF flow = "quarantine" THEN "firing" ELSE "resolved",
     alertname |-> alertname, alerts |-> Alerts(<<label>>), lid |-> lid]

\* one entry-point call on its own
SoloCalls ==
    {FlowCall(f, "Ethernet2", lid, an) :
        f \in {"quarantine", "restore"}, lid \in SotIds \cup {NONE}, an \in AlertNames}
    \cup {Webhook(st, an, ls) :
        st \in {"firing", "resolved"}, an \in AlertNames,
        ls \in {<<"Ethernet2">>, <<"Ethernet2", "Ethernet2">>}}

\* calls that overlap in time
ConcurrentCalls ==
    { <<Webhook("firing", "PeerInterfaceFlapping", <<"Ethernet2">>),
        Webhook("resolved", "PeerInterfaceFlapping", <<"Ethernet2">>)>>,
      <<Webhook("firing", "PeerInterfaceFlapping", <<"Ethernet2", "Ethernet3">>)>>,
      <<FlowCall("quarantine", "Ethernet2", "if-1", "PeerInterfaceFlapping"),
        FlowCall("restore", "Ethernet2", "if-1", "PeerInterfaceFlapping")>>,
      <<Webhook("resolved", "BgpDown", <<"Ethernet2">>),
        Webhook("resolved", "PeerInterfaceFlapping", <<"Ethernet3">>)>> }

\* the device as found: never touched, or with Ethernet2 left quarantined by
\* an earlier quarantine run whose silence may still be active
Untouched(desc) == [l \in Links |-> [admin |-> "up", desc |-> desc]]
Quarantined(d, l) == ApplyCmds(d, l, Tail(quarantine_cmds(l[2])))

InitWorld(descs) ==
    /\ \E desc \in descs :
          \/ /\ dev = Untouched(desc)
             /\ lastMut = [l \in Links |-> "none"]
             /\ silences = <<>>
          \/ /\ dev = Quarantined(Untouched(desc), <<"r1", "Ethernet2">>)
             /\ lastMut = [l \in Links |-> IF l = <<"r1", "Ethernet2">> THEN "quarantine" ELSE "none"]
             /\ silences \in {<<>>, <<silence_body("r1", "Ethernet2")>>}
    /\ amActive \in SUBSET ({PeerInterfaceFlapping} \X Devices \X {"Ethernet2"})
    /\ sot = [i \in SotIds |-> "active"]
    /\ rcv = [s \in Slots |-> NoRcv]
    /\ run = [s \in Slots |-> NoRun]
    /\ flips = 0
    /\ opCmds = 0
    /\ chk = NoChk

\* one entry-point call, with the alert backend and an operator around it
Init ==
    /\ InitWorld(InitDescriptions)
    /\ inbox \in {<<c>> : c \in SoloCalls}

\* several entry-point calls running side by side, on an untouched device with
\* the alert for Ethernet2 active, or on a device with Ethernet2 quarantined,
\* its silence left over and the alert gone
InitConcurrent ==
    /\ InitWorld({""})
    /\ \/ lastMut = [l \in Links |-> "none"] /\ amActive # {}
       \/ silences # <<>> /\ amActive = {}
    /\ inbox \in ConcurrentCalls

RemoveAt(q, i) == SubSeq(q, 1, i - 1) \o SubSeq(q, i + 1, Len(q))

-----------------------------------------------------------------------------
(* Steps of quarantine_link_flow.  Every task call either returns or fails  *)
(* terminally (its retries exhausted), which aborts the run.                *)

\* a failed call that is logged and after which the run carries on
Fail_log_and_continue(s) == run' = [run EXCEPT ![s].failedAt = run[s].pc]

\* a call of the step fails for good (retries exhausted): the exception ends the run
Fail(s) == run' = [run EXCEPT ![s].pc = "failed", ![s].failedAt = run[s].pc]

\* q_idempotency without the return of the already-quarantined branch
q_idempotency_fallthrough(s) ==
    /\ run[s].flow = "quarantine" /\ run[s].pc = "idem"
    /\ \/ Fail(s)
       \/ LET b == is_already_quarantined(dev, run[s].device, run[s].interface)
          IN  run' = [run EXCEPT ![s].idem = BoolStr(b), ![s].pc = "fresh"]
    /\ UNCHANGED <<dev, lastMut, amActive, silences, sot, rcv, inbox, flips, opCmds, chk>>

\* is_already_quarantined(device, interface) and the branch on its result
q_idempotency(s) ==
    /\ run[s].flow = "quarantine" /\ run[s].pc = "idem"
    /\ \/ Fail(s)
       \/ LET b == is_already_quarantined(dev, run[s].device, run[s].interface)
          IN  run' = [run EXCEPT ![s].idem = BoolStr(b),
                                 ![s].pc = IF b THEN "skip" ELSE "fresh"]
    /\ UNCHANGED <<dev, lastMut, amActive, silences, sot, rcv, inbox, flips, opCmds, chk>>

\* the already-quarantined branch: optional SoT patch, skip record, return
q_skip(s) ==
    /\ run[s].flow = "quarantine" /\ run[s].pc = "skip"
    /\ IF run[s].lid # NONE
       THEN \/ Fail(s) /\ UNCHANGED sot
            \/ /\ sot' = [sot EXCEPT ![run[s].lid] = "quarantined"]
               /\ run' = [run EXCEPT ![s].nSot = @ + 1, ![s].sotWrote = "quarantined",
                                     ![s].record = "quarantine-skip", ![s].pc = "done"]
       ELSE /\ run' = [run EXCEPT ![s].record = "quarantine-skip", ![s].pc = "done"]
            /\ UNCHANGED sot
    /\ UNCHANGED <<dev, lastMut, amActive, silences, rcv, inbox, flips, opCmds, chk>>

\* q_freshness without the return of the stale branch
q_freshness_fallthrough(s) ==
    /\ run[s].flow = "quarantine" /\ run[s].pc = "fresh"
    /\ \/ Fail(s)
       \/ LET a == alert_active_in_am(amActive, "PeerInterfaceFlapping",
                                      run[s].device, run[s].interface)
          IN  run' = [run EXCEPT ![s].fresh = BoolStr(a),
                                 ![s].record = IF a THEN @ ELSE "quarantine-stale",
                                 ![s].pc = "lldp"]
    /\ UNCHANGED <<dev, lastMut, amActive, silences, sot, rcv, inbox, flips, opCmds, chk>>

\* freshness gate: alert_active_in_am("PeerInterfaceFlapping", device, interface)
q_freshness(s) ==
    /\ run[s].flow = "quarantine" /\ run[s].pc = "fresh"
    /\ \/ Fail(s)
       \/ LET a == alert_active_in_am(amActive, "PeerInterfaceFlapping",
                                      run[s].device, run[s].interface)
          IN  run' = [run EXCEPT ![s].fresh = BoolStr(a),
                                 ![s].record = IF a THEN @ ELSE "quarantine-stale",
                                 ![s].pc = IF a THEN "lldp" ELSE "done"]
    /\ UNCHANGED <<dev, lastMut, amActive, silences, sot, rcv, inbox, flips, opCmds, chk>>

\* q_lldp in the dual-side design: no peer or an error ends the run
q_lldp_hard_abort(s) ==
    /\ run[s].flow = "quarantine" /\ run[s].pc \in {"lldp", "lldp_sleep"}
    /\ \/ Fail(s)
       \/ \E rows \in LldpTables :
            LET res == lldp_attempt(rows, aliases_for_iface(run[s].interface))
            IN  IF res # <<>>
                THEN run' = [run EXCEPT ![s].lldp = "peer", ![s].peer = res,
                                        ![s].lldpTries = 0, ![s].sess = 0, ![s].pc = "mutate"]
                ELSE IF run[s].lldpTries >= MaxLldpRetries
                THEN Fail(s)
                ELSE run' = [run EXCEPT ![s].lldpTries = @ + 1, ![s].sess = 1,
                                        ![s].pc = "lldp_sleep"]
    /\ UNCHANGED <<dev, lastMut, amActive, silences, sot, rcv, inbox, flips, opCmds, chk>>

\* lldp_peer under try/except: a peer, none or an error, all informational;
\* between two attempts the task sleeps inside its device session
q_lldp(s) ==
    /\ run[s].flow = "quarantine" /\ run[s].pc \in {"lldp", "lldp_sleep"}
    /\ \/ run' = [run EXCEPT ![s].lldp = "error", ![s].lldpTries = 0, ![s].sess = 0,
                              ![s].pc = "mutate"]
       \/ \E rows \in LldpTables :
            LET res == lldp_attempt(rows, aliases_for_iface(run[s].interface))
            IN  IF res # <<>>
                THEN run' = [run EXCEPT ![s].lldp = "peer", ![s].peer = res,
                                        ![s].lldpTries = 0, ![s].sess = 0, ![s].pc = "mutate"]
                ELSE IF run[s].lldpTries >= MaxLldpRetries
                THEN run' = [run EXCEPT ![s].lldp = "none", ![s].lldpTries = 0,
                                        ![s].sess = 0, ![s].pc = "mutate"]
                ELSE run' = [run EXCEPT ![s].lldpTries = @ + 1, ![s].sess = 1,
                                        ![s].pc = "lldp_sleep"]
    /\ UNCHANGED <<dev, lastMut, amActive, silences, sot, rcv, inbox, flips, opCmds, chk>>

\* q_quarantine_side pushing the command batch of restore_side
q_quarantine_side_wrong_batch(s) ==
    /\ run[s].flow = "quarantine" /\ run[s].pc = "mutate"
    /\ \/ Fail(s) /\ UNCHANGED <<dev, lastMut>>
       \/ LET l == <<run[s].device, canon_iface(run[s].interface)>>
          IN  /\ dev' = send_config_set(dev, run[s].device, <<"interface " \o l[2], "no shutdown", "no shutdown">>)
              /\ lastMut' = IF l \in Links THEN [lastMut EXCEPT ![l] = "quarantine"] ELSE lastMut
              /\ run' = [run EXCEPT ![s].nQuar = @ + 1,
                                    ![s].pc = IF run[s].lid # NONE THEN "sot" ELSE "silence"]
    /\ UNCHANGED <<amActive, silences, sot, rcv, inbox, flips, opCmds, chk>>

\* quarantine_side(device, interface); the result of peer discovery was only
\* printed and is not read from here on
q_quarantine_side(s) ==
    /\ run[s].flow = "quarantine" /\ run[s].pc = "mutate"
    /\ \/ Fail(s) /\ UNCHANGED <<dev, lastMut>>
       \/ LET l == <<run[s].device, canon_iface(run[s].interface)>>
          IN  /\ dev' = send_config_set(dev, run[s].device, quarantine_cmds(run[s].interface))
              /\ lastMut' = IF l \in Links THEN [lastMut EXCEPT ![l] = "quarantine"] ELSE lastMut
              /\ run' = [run EXCEPT ![s].nQuar = @ + 1,
                                    ![s].cfgTo = @ \cup {config_target(run[s].device, quarantine_cmds(run[s].interface))},
                                    ![s].lldp = "unset", ![s].peer = <<>>,
                                    ![s].pc = IF run[s].lid # NONE THEN "sot" ELSE "silence"]
    /\ UNCHANGED <<amActive, silences, sot, rcv, inbox, flips, opCmds, chk>>

\* q_update_sot going straight to the wait, without the silence
q_update_sot_skipping_silence(s) ==
    /\ run[s].flow = "quarantine" /\ run[s].pc = "sot"
    /\ \/ Fail(s) /\ UNCHANGED sot
       \/ /\ sot' = [sot EXCEPT ![run[s].lid] = "quarantined"]
          /\ run' = [run EXCEPT ![s].nSot = @ + 1, ![s].sotWrote = "quarantined",
                                ![s].pc = "wait"]
    /\ UNCHANGED <<dev, lastMut, amActive, silences, rcv, inbox, flips, opCmds, chk>>

\* update_interface_status(local_interface_id, "quarantined") after the mutation
q_update_sot(s) ==
    /\ run[s].flow = "quarantine" /\ run[s].pc = "sot"
    /\ \/ Fail(s) /\ UNCHANGED sot
       \/ /\ sot' = [sot EXCEPT ![run[s].lid] = "quarantined"]
          /\ run' = [run EXCEPT ![s].nSot = @ + 1, ![s].sotWrote = "quarantined",
                                ![s].pc = "silence"]
    /\ UNCHANGED <<dev, lastMut, amActive, silences, rcv, inbox, flips, opCmds, chk>>

\* create_quarantine_silence(device, interface, 20)
q_create_silence(s) ==
    /\ run[s].flow = "quarantine" /\ run[s].pc = "silence"
    /\ \/ Fail(s) /\ UNCHANGED silences
       \/ /\ silences' = Append(silences, silence_body(run[s].device, run[s].interface))
          /\ run' = [run EXCEPT ![s].silence_id = Len(silences) + 1, ![s].nSil = @ + 1,
                                ![s].pc = "wait"]
    /\ UNCHANGED <<dev, lastMut, amActive, sot, rcv, inbox, flips, opCmds, chk>>

\* q_wait followed by "if silence_id" instead of "if inactive and silence_id"
q_wait_always_cleanup(s) ==
    /\ run[s].flow = "quarantine" /\ run[s].pc = "wait"
    /\ IF run[s].polls >= MaxWaitPolls
       THEN run' = [run EXCEPT ![s].inactive = "false",
                               ![s].pc = IF run[s].silence_id # 0 THEN "cleanup" ELSE "summary"]
       ELSE \/ Fail(s)
            \/ IF alert_active_in_am(amActive, run[s].alertname, run[s].device, run[s].interface)
               THEN run' = [run EXCEPT ![s].polls = @ + 1]
               ELSE run' = [run EXCEPT ![s].inactive = "true",
                                       ![s].pc = IF run[s].silence_id # 0
                                                 THEN "cleanup" ELSE "summary"]
    /\ UNCHANGED <<dev, lastMut, amActive, silences, sot, rcv, inbox, flips, opCmds, chk>>

\* one iteration of the loop of wait_until_alert_inactive, and the
\* "if inactive and silence_id" that follows its return
q_wait(s) ==
    /\ run[s].flow = "quarantine" /\ run[s].pc = "wait"
    /\ IF run[s].polls >= MaxWaitPolls
       THEN run' = [run EXCEPT ![s].inactive = "false", ![s].pc = "summary"]
       ELSE \/ Fail(s)
            \/ IF alert_active_in_am(amActive, run[s].alertname, run[s].device, run[s].interface)
               THEN run' = [run EXCEPT ![s].polls = @ + 1]
               ELSE run' = [run EXCEPT ![s].inactive = "true",
                                       ![s].pc = IF run[s].silence_id # 0
                                                 THEN "cleanup" ELSE "summary"]
    /\ UNCHANGED <<dev, lastMut, amActive, silences, sot, rcv, inbox, flips, opCmds, chk>>

\* delete_silence_by_id(silence_id): deleted, refused (returns False), or raises
q_delete_silence(s) ==
    /\ run[s].flow = "quarantine" /\ run[s].pc = "cleanup"
    /\ \/ Fail(s) /\ UNCHANGED silences
       \/ /\ silences' = ExpireAll(silences, {run[s].silence_id})
          /\ run' = [run EXCEPT ![s].nDel = @ + 1, ![s].deleted = 1, ![s].pc = "summary"]
       \/ /\ run' = [run EXCEPT ![s].nDel = @ + 1, ![s].pc = "summary"]
          /\ UNCHANGED silences
    /\ UNCHANGED <<dev, lastMut, amActive, sot, rcv, inbox, flips, opCmds, chk>>

\* the summary record of quarantine_link_flow
q_summary(s) ==
    /\ run[s].flow = "quarantine" /\ run[s].pc = "summary"
    /\ run' = [run EXCEPT ![s].record = "quarantine", ![s].pc = "done"]
    /\ UNCHANGED <<dev, lastMut, amActive, silences, sot, rcv, inbox, flips, opCmds, chk>>

-----------------------------------------------------------------------------
(* Steps of restore_link_flow *)

\* r_idempotency without the return of the not-quarantined branch
r_idempotency_fallthrough(s) ==
    /\ run[s].flow = "restore" /\ run[s].pc = "idem"
    /\ \/ Fail(s)
       \/ LET b == is_already_quarantined(dev, run[s].device, run[s].interface)
          IN  run' = [run EXCEPT ![s].idem = BoolStr(b),
                                 ![s].record = IF b THEN @ ELSE "restore-skip",
                                 ![s].pc = "loki"]
    /\ UNCHANGED <<dev, lastMut, amActive, silences, sot, rcv, inbox, flips, opCmds, chk>>

\* is_already_quarantined(device, interface); not quarantined -> skip record
r_idempotency(s) ==
    /\ run[s].flow = "restore" /\ run[s].pc = "idem"
    /\ \/ Fail(s)
       \/ LET b == is_already_quarantined(dev, run[s].device, run[s].interface)
          IN  run' = [run EXCEPT ![s].idem = BoolStr(b),
                                 ![s].record = IF b THEN @ ELSE "restore-skip",
                                 ![s].pc = IF b THEN "loki" ELSE "done"]
    /\ UNCHANGED <<dev, lastMut, amActive, silences, sot, rcv, inbox, flips, opCmds, chk>>

\* loki_no_recent_flaps(device, interface): result unused, failure aborts
r_loki(s) ==
    /\ run[s].flow = "restore" /\ run[s].pc = "loki"
    /\ \/ Fail(s)
       \/ run' = [run EXCEPT ![s].pc = "mutate"]
    /\ UNCHANGED <<dev, lastMut, amActive, silences, sot, rcv, inbox, flips, opCmds, chk>>

\* restore_side(device, interface)
r_restore_side(s) ==
    /\ run[s].flow = "restore" /\ run[s].pc = "mutate"
    /\ \/ Fail(s) /\ UNCHANGED <<dev, lastMut>>
       \/ LET l == <<run[s].device, canon_iface(run[s].interface)>>
          IN  /\ dev' = send_config_set(dev, run[s].device, restore_cmds(run[s].interface))
              /\ lastMut' = IF l \in Links THEN [lastMut EXCEPT ![l] = "restore"] ELSE lastMut
              /\ run' = [run EXCEPT ![s].nRest = @ + 1,
                                    ![s].cfgTo = @ \cup {config_target(run[s].device, restore_cmds(run[s].interface))},
                                    ![s].pc = IF run[s].lid # NONE THEN "sot" ELSE "expire"]
    /\ UNCHANGED <<amActive, silences, sot, rcv, inbox, flips, opCmds, chk>>

\* update_interface_status(local_interface_id, "active")
r_update_sot(s) ==
    /\ run[s].flow = "restore" /\ run[s].pc = "sot"
    /\ \/ Fail(s) /\ UNCHANGED sot
       \/ /\ sot' = [sot EXCEPT ![run[s].lid] = "active"]
          /\ run' = [run EXCEPT ![s].nSot = @ + 1, ![s].sotWrote = "active",
                                ![s].pc = "expire"]
    /\ UNCHANGED <<dev, lastMut, amActive, silences, rcv, inbox, flips, opCmds, chk>>

\* expire_silences_for_link(device, interface): the listing may fail; each
\* deletion is accepted or not on its own
r_expire_silences(s) ==
    /\ run[s].flow = "restore" /\ run[s].pc = "expire"
    /\ \/ Fail(s) /\ UNCHANGED silences
       \/ \E ok \in SUBSET expire_to_del(silences, run[s].device, run[s].interface) :
             /\ silences' = ExpireAll(silences, ok)
             /\ run' = [run EXCEPT ![s].deleted = Cardinality(ok),
                                   ![s].nDel = @ + Cardinality(
                                       expire_to_del(silences, run[s].device, run[s].interface)),
                                   ![s].pc = "summary"]
    /\ UNCHANGED <<dev, lastMut, amActive, sot, rcv, inbox, flips, opCmds, chk>>

\* the summary record of restore_link_flow
r_summary(s) ==
    /\ run[s].flow = "restore" /\ run[s].pc = "summary"
    /\ run' = [run EXCEPT ![s].record = "restore", ![s].pc = "done"]
    /\ UNCHANGED <<dev, lastMut, amActive, silences, sot, rcv, inbox, flips, opCmds, chk>>

-----------------------------------------------------------------------------
(* Entry points *)

\* the distinct (device, interface) label pairs of a group, without empty ones
GroupPairs(alerts) ==
    {p \in {<<alerts[i].device, alerts[i].interface>> : i \in 1..Len(alerts)} :
        p[1] # "" /\ p[2] # ""}

\* process_webhook: one run_deployment of alert_receiver, with the whole
\* group as parameter, per distinct pair
process_webhook ==
    \E i \in 1..Len(inbox) :
        LET g == inbox[i]
            k == Cardinality(GroupPairs(g.alerts))
        IN  /\ g.kind = "webhook"
            /\ k <= Cardinality(FreeSlots)
            /\ rcv' = [s \in Slots |->
                          IF s \in LowestFree(k)
                          THEN [pc |-> "dispatch", status |-> g.status,
                                alertname |-> g.alertname, alerts |-> g.alerts, idx |-> 1,
                                call |-> NextCall]
                          ELSE rcv[s]]
            /\ inbox' = RemoveAt(inbox, i)
            /\ UNCHANGED <<dev, lastMut, amActive, silences, sot, run, flips, opCmds, chk>>

\* alert_receiver calling quarantine_link_flow whatever the status
workflow_for_status_firing_only(status) == "quarantine"

\* the branch of alert_receiver on the status of the group
workflow_for_status(status) == IF status = "firing" THEN "quarantine" ELSE "restore"

\* alert_receiver behind one concurrency limit shared by all links
alert_receiver_global_limit(s) ==
    /\ \A t \in Slots \ {s} : ~InFlight(t)
    /\ \/ rcv[s].pc = "dispatch"
       \/ rcv[s].pc = "inrun" /\ run[s].pc = "done"
    /\ LET i == IF rcv[s].pc = "dispatch" THEN 1 ELSE rcv[s].idx + 1
       IN  IF rcv[s].alertname = "PeerInterfaceFlapping" /\ i <= Len(rcv[s].alerts)
           THEN LET a == rcv[s].alerts[i]
                IN  /\ run' = [run EXCEPT ![s] =
                                 NewRun(workflow_for_status(rcv[s].status),
                                        a.device, canon_iface(a.interface), NONE,
                                        rcv[s].alertname, rcv[s].status)]
                    /\ rcv' = [rcv EXCEPT ![s].pc = "inrun", ![s].idx = i]
           ELSE /\ rcv' = [rcv EXCEPT ![s].pc = "done"]
                /\ UNCHANGED run
    /\ UNCHANGED <<dev, lastMut, amActive, silences, sot, inbox, flips, opCmds, chk>>

\* alert_receiver: one iteration of the loop over the alerts of the group.
\* Each workflow is called in line: the loop goes on when the call has
\* returned, and an exception of the workflow ends alert_receiver.
alert_receiver(s) ==
    /\ \/ rcv[s].pc = "dispatch"
       \/ rcv[s].pc = "inrun" /\ run[s].pc = "done"
    /\ LET i == IF rcv[s].pc = "dispatch" THEN 1 ELSE rcv[s].idx + 1
       IN  IF rcv[s].alertname = "PeerInterfaceFlapping" /\ i <= Len(rcv[s].alerts)
           THEN LET a == rcv[s].alerts[i]
                IN  /\ run' = [run EXCEPT ![s] =
                                 NewRun(workflow_for_status(rcv[s].status),
                                        a.device, canon_iface(a.interface), NONE,
                                        rcv[s].alertname, rcv[s].status)]
                    /\ rcv' = [rcv EXCEPT ![s].pc = "inrun", ![s].idx = i]
           ELSE /\ rcv' = [rcv EXCEPT ![s].pc = "done"]
                /\ UNCHANGED run
    /\ UNCHANGED <<dev, lastMut, amActive, silences, sot, inbox, flips, opCmds, chk>>

\* quarantine_link_flow / restore_link_flow called on their own
invoke_flow ==
    \E i \in 1..Len(inbox) :
        LET c == inbox[i]
        IN  /\ c.kind = "flow"
            /\ FreeSlots # {}
            /\ LET s == CHOOSE t \in LowestFree(1) : TRUE
               IN  /\ rcv' = [rcv EXCEPT ![s].pc = "direct", ![s].call = NextCall]
                   /\ run' = [run EXCEPT ![s] =
                                NewRun(c.flow, c.alerts[1].device, c.alerts[1].interface,
                                       c.lid, c.alertname, c.status)]
            /\ inbox' = RemoveAt(inbox, i)
            /\ UNCHANGED <<dev, lastMut, amActive, silences, sot, flips, opCmds, chk>>

-----------------------------------------------------------------------------
(* Environment: the alert backend's alerts and the operator of the device *)

AlertKeys == {PeerInterfaceFlapping} \X Devices \X Labels

alert_fires ==
    \E a \in AlertKeys \ amActive :
        /\ flips < MaxAlertFlips
        /\ amActive' = amActive \cup {a}
        /\ flips' = flips + 1
        /\ UNCHANGED <<dev, lastMut, silences, sot, rcv, run, inbox, opCmds, chk>>

alert_clears ==
    \E a \in amActive :
        /\ flips < MaxAlertFlips
        /\ amActive' = amActive \ {a}
        /\ flips' = flips + 1
        /\ UNCHANGED <<dev, lastMut, silences, sot, rcv, run, inbox, opCmds, chk>>

\* an operator shuts an interface down, or enables it, leaving its description
operator_shutdown ==
    \E l \in Links :
        /\ opCmds < MaxOperatorCmds
        /\ dev[l].admin = "up"
        /\ dev' = ApplyCmd(dev, l, "shutdown")
        /\ lastMut' = [lastMut EXCEPT ![l] = "operator"]
        /\ opCmds' = opCmds + 1
        /\ UNCHANGED <<amActive, silences, sot, rcv, run, inbox, flips, chk>>

operator_no_shutdown ==
    \E l \in Links :
        /\ opCmds < MaxOperatorCmds
        /\ dev[l].admin = "down"
        /\ dev' = ApplyCmd(dev, l, "no shutdown")
        /\ lastMut' = [lastMut EXCEPT ![l] = "operator"]
        /\ opCmds' = opCmds + 1
        /\ UNCHANGED <<amActive, silences, sot, rcv, run, inbox, flips, chk>>

-----------------------------------------------------------------------------

RunStep(s) ==
    \/ q_idempotency(s) \/ q_skip(s) \/ q_freshness(s) \/ q_lldp(s)
    \/ q_quarantine_side(s) \/ q_update_sot(s) \/ q_create_silence(s)
    \/ q_wait(s) \/ q_delete_silence(s) \/ q_summary(s)
    \/ r_idempotency(s) \/ r_loki(s) \/ r_restore_side(s) \/ r_update_sot(s)
    \/ r_expire_silences(s) \/ r_summary(s)

Next ==
    \/ process_webhook
    \/ invoke_flow
    \/ \E s \in Slots : alert_receiver(s)
    \/ \E s \in Slots : RunStep(s)
    \/ alert_fires
    \/ alert_clears
    \/ operator_shutdown
    \/ operator_no_shutdown

Spec == Init /\ [][Next]_vars

SpecConcurrent == InitConcurrent /\ [][Next]_vars

-----------------------------------------------------------------------------
(* is_already_quarantined called on its own, on the replies of a device    *)
(* whose interface has any administrative state and any description; the   *)
(* running-config may or may not show the description                      *)

CheckDescriptions ==
    {pre \o tag : pre \in {"", "uplink ", "no shutdown "},
                  tag \in {"", "QUARANTINED_BY_PREFECT", "quarantined_by_prefect",
                           "Quarantined_By_Prefect", "QUARANTINED"}}

CheckLink == <<"r1", "Ethernet2">>
CheckDev(c) == [l \in Links |-> [admin |-> c.admin, desc |-> c.desc]]
CheckCfg(c) ==
    running_config([CheckDev(c) EXCEPT ![CheckLink].desc = IF c.tagInCfg THEN @ ELSE ""],
                   CheckLink)
CheckOut(c) == show_interface(CheckDev(c), CheckLink)

InitCheck ==
    /\ dev = Untouched("")
    /\ lastMut = [l \in Links |-> "none"]
    /\ silences = <<>>
    /\ amActive = {}
    /\ sot = [i \in SotIds |-> "active"]
    /\ rcv = [s \in Slots |-> NoRcv]
    /\ run = [s \in Slots |-> NoRun]
    /\ inbox = <<>>
    /\ flips = 0
    /\ opCmds = 0
    /\ chk \in [op : {"is_already_quarantined"}, admin : {"up", "down"},
                desc : CheckDescriptions, tagInCfg : BOOLEAN, res : {"unset"}]

call_is_already_quarantined ==
    /\ chk.op = "is_already_quarantined" /\ chk.res = "unset"
    /\ chk' = [chk EXCEPT !.res = BoolStr(is_already_quarantined_text(CheckCfg(chk), CheckOut(chk)))]
    /\ UNCHANGED <<dev, lastMut, amActive, silences, sot, rcv, run, inbox, flips, opCmds>>

NextCheck == call_is_already_quarantined

SpecCheck == InitCheck /\ [][NextCheck]_vars

\* the rest of the system while one task is called on its own
IdleWorld ==
    /\ dev = Untouched("")
    /\ lastMut = [l \in Links |-> "none"]
    /\ silences = <<>>
    /\ amActive = {}
    /\ sot = [i \in SotIds |-> "active"]
    /\ rcv = [s \in Slots |-> NoRcv]
    /\ run = [s \in Slots |-> NoRun]
    /\ inbox = <<>>
    /\ flips = 0
    /\ opCmds = 0

\* lldp_peer(device, interface) against a given LLDP table
LldpQueries ==
    {"Ethernet2", "Et2", "GigabitEthernet1/0/1", "TenGigabitEthernet1/1",
     "Port-Channel1", "Vlan10", "Management0"}
LldpCheckRows ==
    {LldpRow("Et2", "r2", "Ethernet1"), LldpRow("Ethernet2", "r3", "Ethernet5 (up)"),
     LldpRow("Et3", "r4", "Ethernet9"), LldpRow("Gi1/0/1", "sw1", "Gi0/1"),
     LldpRow("Ethernet22", "r5", "Et1"), LldpRow("Ma0", "oob", "Gi0/7")}
LldpCheckTables ==
    {<<>>} \cup {<<a>> : a \in LldpCheckRows} \cup {<<a, b>> : a, b \in LldpCheckRows}

InitLldp ==
    /\ IdleWorld
    /\ chk \in [op : {"lldp_peer"}, ifname : LldpQueries, rows : LldpCheckTables,
                 st : {"polling"}, tries : {0}, res : {<<>>}]

\* res = _json_attempt(conn) or _table_attempt(conn), and what follows it
lldp_poll ==
    /\ chk.op = "lldp_peer" /\ chk.st = "polling"
    /\ LET res == lldp_attempt(chk.rows, aliases_for_iface(chk.ifname))
       IN  IF res # <<>>
           THEN chk' = [chk EXCEPT !.st = "returned", !.res = res]
           ELSE IF chk.tries >= MaxLldpRetries
           THEN chk' = [chk EXCEPT !.st = "returned"]
           ELSE chk' = [chk EXCEPT !.st = "sleeping", !.tries = @ + 1]
    /\ UNCHANGED <<dev, lastMut, amActive, silences, sot, rcv, run, inbox, flips, opCmds>>

\* time.sleep(2) is over
lldp_wake ==
    /\ chk.op = "lldp_peer" /\ chk.st = "sleeping"
    /\ chk' = [chk EXCEPT !.st = "polling"]
    /\ UNCHANGED <<dev, lastMut, amActive, silences, sot, rcv, run, inbox, flips, opCmds>>

NextLldp == lldp_poll \/ lldp_wake

SpecLldp == InitLldp /\ [][NextLldp]_vars

\* canon_iface(s), and canon_iface of its result
CanonInputs ==
    {pre \o core \o post :
        pre \in {"", " ", "\t "},
        core \in {"", "E", "Ethernet2", "Gi1/0/1", "Port-Channel1", "1/2", "-x", "e-"},
        post \in {"", " ", " (connected)", ", up", "\n", "(x)"}}

InitCanon ==
    /\ IdleWorld
    /\ chk \in [op : {"canon_iface"}, x : CanonInputs, st : {"called"},
                 once : {""}, twice : {""}]

call_canon_iface ==
    /\ chk.op = "canon_iface" /\ chk.st = "called"
    /\ chk' = [chk EXCEPT !.st = "returned", !.once = canon_iface(chk.x),
                          !.twice = canon_iface(canon_iface(chk.x))]
    /\ UNCHANGED <<dev, lastMut, amActive, silences, sot, rcv, run, inbox, flips, opCmds>>

NextCanon == call_canon_iface

SpecCanon == InitCanon /\ [][NextCanon]_vars

-----------------------------------------------------------------------------
TypeOK ==
    /\ \A l \in Links : dev[l].admin \in {"up", "down"}
    /\ \A s \in Slots : run[s].pc \in {"none", "idem", "skip", "fresh", "lldp", "lldp_sleep", "mutate", "sot",
                                       "silence", "wait", "cleanup", "loki", "expire",
                                       "summary", "done", "failed"}

-----------------------------------------------------------------------------
(* Properties *)

HasSentinel(text) == str_in(SENTINEL, text)

\* C1: a quarantine_link_flow run whose idempotency read returned true never
\* calls quarantine_side, create_quarantine_silence or a silence deletion; it
\* goes from the read to the skip branch only, a run that returns has
\* emitted the skip record, and its only external write is at most one
\* source-of-truth patch to "quarantined", made only when local_interface_id
\* was supplied.
C1_AlreadyQuarantinedIsNoOp ==
    \A s \in Slots :
        (run[s].flow = "quarantine" /\ run[s].idem = "true") =>
            /\ run[s].nQuar = 0 /\ run[s].nSil = 0 /\ run[s].nDel = 0
            /\ run[s].silence_id = 0
            /\ run[s].pc \in {"skip", "done", "failed"}
            /\ (run[s].pc = "done" => run[s].record = "quarantine-skip")
            /\ run[s].nSot <= (IF run[s].lid # NONE THEN 1 ELSE 0)
            /\ run[s].sotWrote \in {NONE, "quarantined"}
            /\ (run[s].lid = NONE => run[s].pc # "failed")

C1_Witness ==
    \E s \in Slots :
        /\ run[s].flow = "quarantine" /\ run[s].idem = "true"
        /\ run[s].pc = "done" /\ run[s].record = "quarantine-skip"
        /\ run[s].nSot = 1 /\ sot[run[s].lid] = "quarantined"

\* C2: a quarantine_link_flow run whose freshness check reported the alert
\* inactive has ended with the stale record, and has called neither
\* quarantine_side nor create_quarantine_silence nor the source-of-truth patch.
C2_StaleAlertAbortsBeforeMutation ==
    \A s \in Slots :
        (run[s].flow = "quarantine" /\ run[s].fresh = "false") =>
            /\ run[s].pc = "done" /\ run[s].record = "quarantine-stale"
            /\ run[s].nQuar = 0 /\ run[s].nSil = 0 /\ run[s].nSot = 0 /\ run[s].nDel = 0

C2_Witness ==
    \E s \in Slots :
        /\ run[s].flow = "quarantine" /\ run[s].fresh = "false"
        /\ run[s].idem = "false" /\ run[s].record = "quarantine-stale"

\* C3: a restore_link_flow run whose idempotency read returned false has
\* returned normally with the skip record and has made no restore_side call
\* (and no other write).
C3_RestoreOfUntouchedLinkIsNoOp ==
    \A s \in Slots :
        (run[s].flow = "restore" /\ run[s].idem = "false") =>
            /\ run[s].nRest = 0 /\ run[s].nSot = 0 /\ run[s].nDel = 0
            /\ run[s].pc = "done" /\ run[s].record = "restore-skip"

C3_Witness ==
    \E s \in Slots :
        /\ run[s].flow = "restore" /\ run[s].idem = "false"
        /\ run[s].record = "restore-skip"
        /\ dev[RunLink(s)].admin = "down"

C5_OneRunInFlightPerLink ==
    \A s, t \in Slots :
        (s # t /\ InFlight(s) /\ InFlight(t)) => RunLink(s) # RunLink(t)

\* the link of the alert that follows the one alert_receiver is processing
NextAlertLink(s) ==
    LET a == rcv[s].alerts[rcv[s].idx + 1]
    IN  <<a.device, canon_iface(a.interface)>>

C7_WaitState ==
    \A s \in Slots :
        run[s].flow = "quarantine" =>
            /\ run[s].inactive = "true" =>
                  /\ run[s].polls < MaxWaitPolls
                  /\ run[s].pc \in {"cleanup", "summary", "done", "failed"}
                  /\ run[s].pc \in {"summary", "done"} => run[s].nDel = 1
                  /\ run[s].deleted = 1 => silences[run[s].silence_id].state = "expired"
            /\ run[s].inactive = "false" =>
                  /\ run[s].polls = MaxWaitPolls
                  /\ run[s].pc \in {"summary", "done"}
                  /\ run[s].nDel = 0
                  /\ silences[run[s].silence_id].state = "active"
                  /\ run[s].pc = "done" => run[s].record = "quarantine"

C7_WaitStep ==
    \A s \in Slots :
        (run[s].flow = "quarantine" /\ run'[s] # run[s]) =>
            /\ run[s].pc = "wait" =>
                LET act == alert_active_in_am(amActive, run[s].alertname,
                                              run[s].device, run[s].interface)
                IN  \/ run[s].polls < MaxWaitPolls /\ run'[s].pc = "failed"
                    \/ /\ run[s].polls < MaxWaitPolls /\ ~act
                       /\ run'[s].inactive = "true" /\ run'[s].pc = "cleanup"
                    \/ /\ run[s].polls < MaxWaitPolls /\ act
                       /\ run'[s].pc = "wait" /\ run'[s].polls = run[s].polls + 1
                    \/ /\ run[s].polls >= MaxWaitPolls
                       /\ run'[s].inactive = "false" /\ run'[s].pc = "summary"
            /\ run[s].pc = "cleanup" =>
                \/ run'[s].pc = "failed"
                \/ /\ run'[s].pc = "summary" /\ run'[s].nDel = run[s].nDel + 1
                   /\ \/ silences'[run[s].silence_id].state = "expired"
                      \/ run'[s].deleted = 0 /\ silences' = silences
            /\ run[s].pc = "summary" =>
                run'[s].pc = "done" /\ run'[s].record = "quarantine"

C7_WaitDecidesCleanup == []C7_WaitState /\ [][C7_WaitStep]_vars

C7_Witness ==
    \E s \in Slots :
        /\ run[s].flow = "quarantine" /\ run[s].pc = "done" /\ run[s].record = "quarantine"
        /\ run[s].inactive = "true" /\ run[s].polls >= 1
        /\ run[s].deleted = 1 /\ silences[run[s].silence_id].state = "expired"

\* C8: when alert_receiver has finished a firing PeerInterfaceFlapping group
\* with the single alert r1 / Ethernet2, the link was not quarantined, the
\* alert was active at the freshness check and inactive within the wait,
\* every call succeeded and no operator touched the device, then Ethernet2 of
\* r1 is administratively down with the sentinel description, exactly one
\* silence was created and it is deleted, and the summary record states the
\* SoT status "quarantined".
C8_Scenario(s) ==
    /\ rcv[s].pc = "done" /\ rcv[s].status = "firing"
    /\ rcv[s].alertname = "PeerInterfaceFlapping"
    /\ rcv[s].alerts = Alerts(<<"Ethernet2">>)
    /\ run[s].pc = "done"
    /\ run[s].idem = "false" /\ run[s].fresh = "true" /\ run[s].inactive = "true"
    /\ run[s].deleted = 1
    /\ opCmds = 0

C8_EndToEnd ==
    \A s \in Slots :
        C8_Scenario(s) =>
            /\ dev[<<"r1", "Ethernet2">>] = [admin |-> "down", desc |-> "QUARANTINED_BY_PREFECT"]
            /\ run[s].nQuar = 1 /\ run[s].nSil = 1 /\ run[s].nDel = 1
            /\ Len(silences) = 1 /\ silences[1].state = "expired"
            /\ run[s].silence_id = 1
            /\ run[s].record = "quarantine"
            /\ SummarySoT(run[s].record) = "quarantined"

C8_Witness == \E s \in Slots : C8_Scenario(s) /\ run[s].polls >= 1

\* C9: an interface that is administratively down because of quarantine_side
\* carries the sentinel in its description, and no step takes the sentinel
\* away from an interface and leaves it administratively down.
C9_DownState ==
    \A l \in Links :
        (dev[l].admin = "down" /\ lastMut[l] = "quarantine") => HasSentinel(dev[l].desc)

C9_DownStep ==
    \A l \in Links :
        (HasSentinel(dev[l].desc) /\ ~HasSentinel(dev'[l].desc)) => dev'[l].admin = "up"

ShutdownDirective(cfg) == str_in("\n   shutdown\n", cfg)

AdminDownPhrase(out) ==
    \/ str_in("admin state is down", str_lower(out))
    \/ str_in("administratively down", str_lower(out))

\* C10: is_already_quarantined returns true iff the running-config holds the
\* shutdown directive and the sentinel (any case) or the interface status
\* holds an admin-down phrase and the sentinel; it returns false for an
\* administratively enabled interface, whatever its description.
C10_TrueIffShutdownAndSentinel ==
    chk.res # "unset" =>
        /\ chk.res = "true" <=>
              \/ /\ ShutdownDirective(CheckCfg(chk))
                 /\ str_in("quarantined_by_prefect", str_lower(CheckCfg(chk)))
              \/ /\ AdminDownPhrase(CheckOut(chk))
                 /\ str_in("quarantined_by_prefect", str_lower(CheckOut(chk)))
        /\ chk.admin = "up" => chk.res = "false"

\* the alerts of its group for which alert_receiver s has started a run
RunsStarted(s) ==
    IF rcv[s].pc \in {"inrun", "done"} /\ rcv[s].alertname = "PeerInterfaceFlapping"
    THEN rcv[s].idx ELSE 0
AlertLink(s, i) == <<rcv[s].alerts[i].device, canon_iface(rcv[s].alerts[i].interface)>>

\* C11: alert_receiver starts one run per distinct canonical (device,
\* interface) pair of its group: no two runs it started are for the same link.
C11_OneRunPerDistinctPair ==
    \A s \in Slots :
        \A i, j \in 1..RunsStarted(s) : i # j => AlertLink(s, i) # AlertLink(s, j)

\* C12: each webhook delivery leads to one alert_receiver invocation: no two
\* invocations come from the same delivery, and so no link of one delivery
\* has runs started by two invocations.
C12_OneReceiverPerWebhook ==
    \A s, t \in Slots :
        (s # t /\ rcv[s].call # 0 /\ rcv[t].call # 0) =>
            /\ rcv[s].call # rcv[t].call
            /\ rcv[s].call = rcv[t].call =>
                  \A i \in 1..RunsStarted(s), j \in 1..RunsStarted(t) :
                      AlertLink(s, i) # AlertLink(t, j)

\* C13: every run alert_receiver starts is quarantine_link_flow when the
\* group is firing and restore_link_flow when it is resolved, for the link of
\* the alert it is processing; each alert gets one run, and a group whose
\* alertname is not PeerInterfaceFlapping gets none.
C13_DispatchState ==
    \A s \in Slots :
        rcv[s].pc \in {"dispatch", "inrun", "done"} =>
            /\ rcv[s].alertname # "PeerInterfaceFlapping" => run[s].flow = "none"
            /\ run[s].flow # "none" =>
                  /\ rcv[s].status = "firing" => run[s].flow = "quarantine"
                  /\ rcv[s].status = "resolved" => run[s].flow = "restore"
                  /\ RunLink(s) = AlertLink(s, rcv[s].idx)
                  /\ run[s].alertname = rcv[s].alertname /\ run[s].status = rcv[s].status

C13_DispatchStep ==
    \A s \in Slots :
        (rcv[s].pc \in {"dispatch", "inrun"} /\ rcv'[s] # rcv[s]) =>
            \/ /\ rcv'[s].pc = "inrun"
               /\ RunsStarted(s)' = RunsStarted(s) + 1
               /\ run'[s].pc = "idem"
               /\ run'[s].flow \in {"quarantine", "restore"}
            \/ /\ rcv'[s].pc = "done"
               /\ RunsStarted(s)' = RunsStarted(s)
               /\ run'[s] = run[s]

C13_DispatchByStatus == []C13_DispatchState /\ [][C13_DispatchStep]_vars

C13_Witness ==
    \E s \in Slots :
        /\ rcv[s].pc = "done" /\ rcv[s].status = "resolved" /\ rcv[s].idx = 2
        /\ run[s].flow = "restore" /\ run[s].pc = "done" /\ run[s].nRest = 0

\* C14: in a quarantine run called with alert name A the silence it created
\* has the matchers alertname = A, device, interface of the run, and the
\* freshness check answers whether alert A is active for the link.
C14_SilenceOfRun ==
    \A s \in Slots :
        (run[s].flow = "quarantine" /\ run[s].silence_id # 0) =>
            /\ silences[run[s].silence_id].alertname = run[s].alertname
            /\ silences[run[s].silence_id].device = run[s].device
            /\ silences[run[s].silence_id].interface = run[s].interface

C14_FreshnessOfRun ==
    \A s \in Slots :
        (run[s].flow = "quarantine" /\ run[s].pc = "fresh" /\ run'[s].fresh # "unset") =>
            (run'[s].fresh = "true" <=>
                alert_active_in_am(amActive, run[s].alertname, run[s].device, run[s].interface))

C14_OneTriplePerRun == []C14_SilenceOfRun /\ [][C14_FreshnessOfRun]_vars

\* the steps whose call can end the run
AbortingSteps == {"idem", "skip", "fresh", "mutate", "sot", "silence", "wait", "cleanup",
                  "loki", "expire"}

\* C15 (as amended): a call that fails for good ends the run at that step and
\* nothing of the run executes afterwards (alert_receiver does not go on to
\* the next alert either); the failures a run survives are those of the
\* best-effort steps and of peer discovery, which is informational.
C15_FailureState ==
    \A s \in Slots :
        /\ run[s].failedAt # "none" <=> run[s].pc = "failed"
        /\ run[s].failedAt \in AbortingSteps \cup {"none"}
        /\ run[s].lldp = "error" => run[s].failedAt \notin {"lldp", "lldp_sleep"}

C15_FailureStep ==
    \A s \in Slots :
        run[s].pc = "failed" => (run'[s] = run[s] /\ rcv'[s] = rcv[s])

C15_FailureEndsRun == []C15_FailureState /\ [][C15_FailureStep]_vars

\* C15 (as claimed): in addition, an error of lldp_peer ends the run.
C15_EveryFailureEndsRun ==
    /\ C15_FailureEndsRun
    /\ [](\A s \in Slots : run[s].lldp = "error" => (run[s].pc = "failed" /\ run[s].nQuar = 0))

C15_Witness ==
    \E s \in Slots :
        /\ run[s].pc = "failed" /\ run[s].failedAt = "silence"
        /\ run[s].nQuar = 1 /\ run[s].nSil = 0 /\ run[s].cfgTo = {RunLink(s)}

\* C16: the cleanup of leftover silences never ends a restore run: a run that
\* has completed restore_side (and the SoT patch, when it has one) reaches
\* its summary record.
C16_CleanupNeverEndsRun ==
    \A s \in Slots :
        run[s].flow = "restore" =>
            /\ run[s].failedAt # "expire"
            /\ (run[s].nRest = 1 /\ (run[s].lid = "None" \/ run[s].nSot = 1)) =>
                   run[s].pc # "failed"

\* C17: a run that sleeps between two polls, in wait_until_alert_inactive or
\* in the retry loop of lldp_peer, owns no open device session.
C17_NoSessionAcrossSleep ==
    \A s \in Slots :
        run[s].pc \in {"wait", "lldp_sleep"} => run[s].sess = 0

\* C18: whatever lldp_peer returns or raises, the run goes on to
\* quarantine_side, and the command batches of the run go to the run's own
\* (device, interface) only, never to the discovered peer; a step of a run
\* changes no other interface of the device model.
C18_PeerState ==
    \A s \in Slots :
        run[s].flow = "quarantine" =>
            /\ run[s].failedAt \notin {"lldp", "lldp_sleep"}
            /\ run[s].lldp # "unset" =>
                  \/ run[s].pc = "mutate"
                  \/ run[s].pc = "failed" /\ run[s].failedAt = "mutate"
            /\ run[s].pc = "mutate" => run[s].lldp \in {"peer", "none", "error"}
            /\ run[s].cfgTo \subseteq {RunLink(s)}

C18_PeerStep ==
    \A s \in Slots :
        /\ (run[s].flow = "quarantine" /\ run[s].pc \in {"lldp", "lldp_sleep"}
                /\ run'[s] # run[s]) =>
              run'[s].pc \in {"lldp_sleep", "mutate"}
        /\ (run[s].flow = "quarantine" /\ run[s].pc = "mutate" /\ run'[s] # run[s]) =>
              \/ run'[s].pc = "failed" /\ dev' = dev
              \/ /\ run'[s].nQuar = run[s].nQuar + 1
                 /\ run'[s].cfgTo = {RunLink(s)}
                 /\ run[s].peer \notin run'[s].cfgTo
        /\ (run'[s] # run[s] /\ run[s].flow # "none") =>
              \A l \in Links : dev'[l] # dev[l] => l = RunLink(s)

C18_PeerIsInformational == []C18_PeerState /\ [][C18_PeerStep]_vars

C18_Witness ==
    \E s \in Slots :
        /\ run[s].flow = "quarantine" /\ run[s].pc = "mutate"
        /\ run[s].lldp = "peer" /\ run[s].peer = <<"r2", "Ethernet1">>
        /\ run[s].nQuar = 0 /\ ENABLED q_quarantine_side(s)

\* C19: lldp_peer returns the remote device and canonical remote port of the
\* first neighbor row whose canonical local port is an alias of the queried
\* interface (its name or its table-driven abbreviation), and returns none
\* only when no row matches and the wait budget is used up.
LldpRowMatches(i) ==
    \/ canon_iface(chk.rows[i].port) = chk.ifname
    \/ \E k \in 1..Len(AliasTable) :
          /\ str_startswith(chk.ifname, AliasTable[k][1])
          /\ canon_iface(chk.rows[i].port) =
                AliasTable[k][2] \o SubSeq(chk.ifname, Len(AliasTable[k][1]) + 1, Len(chk.ifname))

C19_PeerMatching ==
    /\ aliases_for_iface("GigabitEthernet1/0/1") = {"GigabitEthernet1/0/1", "Gi1/0/1"}
    /\ (chk.op = "lldp_peer" /\ chk.st = "returned") =>
          LET hits == {i \in 1..Len(chk.rows) : LldpRowMatches(i)}
          IN  /\ hits # {} =>
                    \E i \in hits :
                        /\ \A j \in hits : i <= j
                        /\ chk.res = <<chk.rows[i].neighborDevice,
                                       canon_iface(chk.rows[i].neighborPort)>>
              /\ hits = {} => (chk.res = <<>> /\ chk.tries = MaxLldpRetries)
              /\ (chk.ifname = "Ethernet2" /\ \E i \in 1..Len(chk.rows) : chk.rows[i].port = "Et2")
                    => chk.res # <<>>
    /\ (chk.op = "lldp_peer" /\ chk.st = "sleeping") =>
          \A i \in 1..Len(chk.rows) : ~LldpRowMatches(i)

C19_Witness ==
    /\ chk.op = "lldp_peer" /\ chk.st = "returned" /\ chk.ifname = "Ethernet2"
    /\ Len(chk.rows) = 2 /\ chk.rows[1].port = "Et3" /\ chk.rows[2].port = "Et2"
    /\ chk.res = <<"r2", "Ethernet1">>

\* C20: canon_iface is idempotent, and canon_iface("Ethernet2 (connected)")
\* is "Ethernet2".
C20_CanonIdempotent ==
    (chk.op = "canon_iface" /\ chk.st = "returned") =>
        /\ chk.twice = chk.once
        /\ chk.x = "Ethernet2 (connected)" => chk.once = "Ethernet2"

C20_Witness ==
    /\ chk.op = "canon_iface" /\ chk.st = "returned"
    /\ chk.x = "Ethernet2 (connected)" /\ chk.once = "Ethernet2" /\ chk.twice = "Ethernet2"

\* C21: the steps of a quarantine_link_flow run come in a fixed order: the
\* silence is created only after quarantine_side has returned in the same
\* run; on the non-skip path the SoT patch comes after the device mutation
\* and before the silence; the wait starts only after the silence was
\* created; the silence is deleted only after the wait returned; the summary
\* record is the last action of the run.
C21_OrderState ==
    \A s \in Slots :
        run[s].flow = "quarantine" =>
            /\ run[s].nSil >= 1 => run[s].nQuar = 1
            /\ (run[s].nSot >= 1 /\ run[s].idem = "false") => run[s].nQuar = 1
            /\ (run[s].nSil >= 1 /\ run[s].lid # NONE) => run[s].nSot = 1
            /\ (run[s].pc = "wait" \/ run[s].polls > 0 \/ run[s].inactive # "unset") =>
                  (run[s].nSil = 1 /\ run[s].silence_id # 0)
            /\ run[s].nDel >= 1 => run[s].inactive = "true"
            /\ run[s].record = "quarantine" =>
                  (run[s].pc = "done" /\ run[s].nQuar = 1 /\ run[s].nSil = 1
                   /\ run[s].inactive # "unset")

C21_OrderStep ==
    \A s \in Slots :
        (run[s].flow = "quarantine" /\ run'[s] # run[s]) =>
            /\ run[s].pc = "mutate" =>
                  \/ run'[s].pc = "failed" /\ run'[s].nQuar = run[s].nQuar
                  \/ /\ run'[s].nQuar = run[s].nQuar + 1
                     /\ run'[s].pc = (IF run[s].lid # NONE THEN "sot" ELSE "silence")
            /\ run[s].pc = "sot" =>
                  \/ run'[s].pc = "failed" /\ run'[s].nSot = run[s].nSot
                  \/ run'[s].pc = "silence" /\ run'[s].nSot = run[s].nSot + 1
            /\ run[s].pc = "silence" =>
                  \/ run'[s].pc = "failed" /\ run'[s].nSil = run[s].nSil
                  \/ run'[s].pc = "wait" /\ run'[s].nSil = run[s].nSil + 1
            /\ run[s].pc = "wait" => run'[s].pc \in {"failed", "wait", "cleanup", "summary"}
            /\ run[s].pc = "cleanup" => run'[s].pc \in {"failed", "summary"}
            /\ run[s].pc = "summary" =>
                  (run'[s].pc = "done" /\ run'[s].record = "quarantine")
            /\ run[s].pc = "done" => (run'[s].pc = "idem" /\ rcv'[s].idx = rcv[s].idx + 1)
            /\ run[s].pc \notin {"mutate", "done"} => run'[s].nQuar = run[s].nQuar
            /\ run[s].pc \notin {"silence", "done"} => run'[s].nSil = run[s].nSil
            /\ run[s].pc \notin {"cleanup", "done"} => run'[s].nDel = run[s].nDel
            /\ run[s].pc \notin {"sot", "skip", "done"} => run'[s].nSot = run[s].nSot

C21_FixedOrder == []C21_OrderState /\ [][C21_OrderStep]_vars

C21_Witness ==
    \E s \in Slots :
        /\ run[s].flow = "quarantine" /\ run[s].pc = "done" /\ run[s].record = "quarantine"
        /\ run[s].lid = "if-1" /\ run[s].nQuar = 1 /\ run[s].nSot = 1
        /\ run[s].nSil = 1 /\ run[s].nDel = 1 /\ sot["if-1"] = "quarantined"

\* expire_silences_for_link(device, interface) called on its own, against a
\* backend that lists up to MaxSilences silences
ListedSilences ==
    {[alertname |-> "PeerInterfaceFlapping", device |-> "r1", interface |-> "Ethernet2", state |-> "active"],
     [alertname |-> "PeerInterfaceFlapping", device |-> "r1", interface |-> "Ethernet2", state |-> "expired"],
     [alertname |-> "PeerInterfaceFlapping", device |-> "r1", interface |-> "Ethernet3", state |-> "active"],
     [alertname |-> "PeerInterfaceFlapping", device |-> "r2", interface |-> "Ethernet2", state |-> "active"],
     [alertname |-> "BgpDown", device |-> "r1", interface |-> "Ethernet2", state |-> "active"]}

RECURSIVE SeqsUpTo(_, _)
SeqsUpTo(S, n) ==
    IF n = 0 THEN {<<>>}
    ELSE SeqsUpTo(S, n - 1) \cup {Append(q, x) : q \in SeqsUpTo(S, n - 1), x \in S}

InitExpire ==
    /\ dev = Untouched("")
    /\ lastMut = [l \in Links |-> "none"]
    /\ silences \in SeqsUpTo(ListedSilences, MaxSilences)
    /\ amActive = {}
    /\ sot = [i \in SotIds |-> "active"]
    /\ rcv = [s \in Slots |-> NoRcv]
    /\ run = [s \in Slots |-> NoRun]
    /\ inbox = <<>>
    /\ flips = 0
    /\ opCmds = 0
    /\ chk \in [op : {"expire_silences_for_link"}, device : {"r1"}, interface : IfNames,
                 st : {"called"}, before : {silences}, todo : {{}}, tried : {{}},
                 count : {0}, res : {0}]

\* GET /api/v2/silences and the filter loop; raise_for_status may raise
expire_list ==
    /\ chk.op = "expire_silences_for_link" /\ chk.st = "called"
    /\ \/ chk' = [chk EXCEPT !.st = "raised"]
       \/ chk' = [chk EXCEPT !.st = "deleting",
                             !.todo = expire_to_del(silences, chk.device, chk.interface)]
    /\ UNCHANGED <<dev, lastMut, amActive, silences, sot, rcv, run, inbox, flips, opCmds>>

\* one iteration of "for sid in to_del": the DELETE is accepted, refused
\* (not dr.ok) or raises, and the loop goes on
expire_delete ==
    /\ chk.op = "expire_silences_for_link" /\ chk.st = "deleting" /\ chk.todo # {}
    /\ LET sid == CHOOSE i \in chk.todo : \A j \in chk.todo : i <= j
       IN  \/ /\ silences' = ExpireAll(silences, {sid})
              /\ chk' = [chk EXCEPT !.todo = @ \ {sid}, !.tried = @ \cup {sid},
                                    !.count = @ + 1]
           \/ /\ chk' = [chk EXCEPT !.todo = @ \ {sid}, !.tried = @ \cup {sid}]
              /\ UNCHANGED silences
    /\ UNCHANGED <<dev, lastMut, amActive, sot, rcv, run, inbox, flips, opCmds>>

\* return count
expire_return ==
    /\ chk.op = "expire_silences_for_link" /\ chk.st = "deleting" /\ chk.todo = {}
    /\ chk' = [chk EXCEPT !.st = "returned", !.res = chk.count]
    /\ UNCHANGED <<dev, lastMut, amActive, silences, sot, rcv, run, inbox, flips, opCmds>>

NextExpire == expire_list \/ expire_delete \/ expire_return

SpecExpire == InitExpire /\ [][NextExpire]_vars

\* the silences of the listing that are active and whose matchers are
\* (PeerInterfaceFlapping, device, interface) of the call
ExpireMatching ==
    {i \in 1..Len(chk.before) :
        /\ chk.before[i].state = "active"
        /\ <<chk.before[i].alertname, chk.before[i].device, chk.before[i].interface>>
              = <<"PeerInterfaceFlapping", chk.device, chk.interface>>}

\* C22: expire_silences_for_link attempts the deletion of every active
\* silence whose matchers are (PeerInterfaceFlapping, device, interface), of
\* no other silence, and returns the number of deletions that succeeded; a
\* deletion that fails does not stop the attempts for the remaining ones.
C22_ExpireMatchingOnly ==
    chk.op = "expire_silences_for_link" =>
        /\ chk.tried \subseteq ExpireMatching
        /\ \A i \in 1..Len(silences) : i \notin chk.tried => silences[i] = chk.before[i]
        /\ chk.st = "deleting" => chk.tried \cup chk.todo = ExpireMatching
        /\ chk.st = "returned" =>
              /\ chk.tried = ExpireMatching
              /\ chk.res = Cardinality({i \in 1..Len(silences) :
                                           silences[i].state # chk.before[i].state})
              /\ \A i \in chk.tried : silences[i].state \in {"active", "expired"}

C22_Witness ==
    /\ chk.op = "expire_silences_for_link" /\ chk.st = "returned"
    /\ Len(silences) = 2 /\ chk.tried = {1, 2} /\ chk.res = 1
    /\ silences[1].state = "active" /\ silences[2].state = "expired"

\* lldp_peer(device, interface, wait_s) called on its own, with its clock:
\* elapsed is the time in seconds since the deadline was computed, a
\* discovery attempt takes 0 or 1 second and time.sleep(2) takes 2
WaitBudgets == (0 - 2)..MaxWaitBudget
Max0(n) == IF n > 0 THEN n ELSE 0

\* the deadline test with > in place of >=
deadline_passed_strict(elapsed, wait_s) == elapsed > Max0(wait_s)

\* time.time() >= deadline, with deadline = time.time() + max(0, wait_s)
deadline_passed(elapsed, wait_s) == elapsed >= Max0(wait_s)

InitLldpWait ==
    /\ IdleWorld
    /\ chk \in [op : {"lldp_peer_wait"}, ifname : {"Ethernet2"}, wait_s : WaitBudgets,
                 elapsed : {0}, attempts : {0}, sleeps : {0}, st : {"polling"},
                 last : {"none"}, res : {<<>>}]

\* one pass of "while True": the attempt (which may raise out of the task),
\* return res, the deadline test, or the way to time.sleep(2)
lldp_wait_poll ==
    /\ chk.op = "lldp_peer_wait" /\ chk.st = "polling"
    /\ \E d \in {0, 1} :
         \/ chk' = [chk EXCEPT !.st = "raised", !.last = "error",
                               !.attempts = @ + 1, !.elapsed = @ + d]
         \/ \E rows \in LldpTables :
              LET res == lldp_attempt(rows, aliases_for_iface(chk.ifname))
              IN  IF res # <<>>
                  THEN chk' = [chk EXCEPT !.st = "returned", !.last = "found", !.res = res,
                                          !.attempts = @ + 1, !.elapsed = @ + d]
                  ELSE IF deadline_passed(chk.elapsed + d, chk.wait_s)
                  THEN chk' = [chk EXCEPT !.st = "returned", !.last = "nomatch",
                                          !.attempts = @ + 1, !.elapsed = @ + d]
                  ELSE chk' = [chk EXCEPT !.st = "sleeping", !.last = "nomatch",
                                          !.attempts = @ + 1, !.elapsed = @ + d]
    /\ UNCHANGED <<dev, lastMut, amActive, silences, sot, rcv, run, inbox, flips, opCmds>>

\* time.sleep(2)
lldp_wait_sleep ==
    /\ chk.op = "lldp_peer_wait" /\ chk.st = "sleeping"
    /\ chk' = [chk EXCEPT !.st = "polling", !.sleeps = @ + 1, !.elapsed = @ + 2]
    /\ UNCHANGED <<dev, lastMut, amActive, silences, sot, rcv, run, inbox, flips, opCmds>>

NextLldpWait == lldp_wait_poll \/ lldp_wait_sleep

\* the task is the only thread of its call: it keeps running
SpecLldpWait == InitLldpWait /\ [][NextLldpWait]_vars /\ WF_vars(NextLldpWait)

\* C23: lldp_peer terminates; it makes at least one attempt, also for a
\* wait_s of 0 or less; after an attempt without a match it returns none when
\* the deadline has passed and sleeps 2 seconds otherwise, so the attempts
\* are bounded by the budget; a used-up budget gives none, never an
\* exception (an exception comes from a device command only).
C23_WaitState ==
    chk.op = "lldp_peer_wait" =>
        /\ chk.attempts = chk.sleeps + (IF chk.st = "polling" THEN 0 ELSE 1)
        /\ chk.elapsed >= 2 * chk.sleeps
        /\ chk.attempts <= 1 + (Max0(chk.wait_s) + 1) \div 2
        /\ chk.st = "sleeping" => chk.elapsed < Max0(chk.wait_s)
        /\ chk.st \in {"returned", "raised"} => chk.attempts >= 1
        /\ (chk.st = "returned" /\ chk.res = <<>>) =>
              (chk.last = "nomatch" /\ chk.elapsed >= Max0(chk.wait_s))
        /\ (chk.st = "returned" /\ chk.res # <<>>) => chk.last = "found"
        /\ chk.st = "raised" => chk.last = "error"
        /\ (chk.last = "nomatch" /\ chk.st # "polling") =>
              (chk.st = "returned" <=> chk.elapsed >= Max0(chk.wait_s))

C23_Terminates == []C23_WaitState /\ <>(chk.st \in {"returned", "raised"})

C23_Witness ==
    /\ chk.op = "lldp_peer_wait" /\ chk.st = "returned" /\ chk.res = <<>>
    /\ chk.wait_s <= 0 /\ chk.attempts = 1 /\ chk.sleeps = 0

\* entry-point calls whose interface label is not in canonical form, as the
\* alert rule and a caller can spell it
RawLabel == "Ethernet2 (connected)"
PaddedLabel == " Ethernet2"

RawCalls ==
    { <<Webhook("firing", "PeerInterfaceFlapping", <<RawLabel>>)>>,
      <<Webhook("resolved", "PeerInterfaceFlapping", <<RawLabel>>)>>,
      <<FlowCall("quarantine", RawLabel, "if-1", "BgpDown"),
        FlowCall("restore", PaddedLabel, "if-1", "PeerInterfaceFlapping")>> }

\* the alert backend holds the alert under the label of the rule or under
\* the canonical name, or Ethernet2 was left quarantined with its silence
InitRaw ==
    /\ \/ /\ dev = Untouched("")
          /\ lastMut = [l \in Links |-> "none"]
          /\ silences = <<>>
          /\ amActive \in {{<<PeerInterfaceFlapping, "r1", RawLabel>>},
                           {<<PeerInterfaceFlapping, "r1", "Ethernet2">>}}
       \/ /\ dev = Quarantined(Untouched(""), <<"r1", "Ethernet2">>)
          /\ lastMut = [l \in Links |-> IF l = <<"r1", "Ethernet2">> THEN "quarantine" ELSE "none"]
          /\ silences = <<silence_body("r1", "Ethernet2")>>
          /\ amActive = {}
    /\ sot = [i \in SotIds |-> "active"]
    /\ rcv = [s \in Slots |-> NoRcv]
    /\ run = [s \in Slots |-> NoRun]
    /\ flips = 0
    /\ opCmds = 0
    /\ chk = NoChk
    /\ inbox \in RawCalls

SpecRaw == InitRaw /\ [][Next]_vars

\* the alert alert_receiver s is processing, with its labels as received
InboundAlert(s) == rcv[s].alerts[rcv[s].idx]

\* C24: when the alert backend holds an active PeerInterfaceFlapping alert
\* with exactly the device and interface labels of the inbound alert, the
\* freshness check of the quarantine run started for that alert reports it
\* active, whatever the interface label.
C24_FreshStep ==
    \A s \in Slots :
        (/\ rcv[s].pc = "inrun" /\ run[s].flow = "quarantine" /\ run[s].pc = "fresh"
         /\ run'[s].fresh # "unset"
         /\ <<PeerInterfaceFlapping, InboundAlert(s).device, InboundAlert(s).interface>>
               \in amActive)
        => run'[s].fresh = "true"

C24_ActiveAlertIsFresh == [][C24_FreshStep]_vars

\* C25: a terminal failure of the run for one pair of a group ends that run
\* only: alert_receiver can still start the run for the next pair of the
\* group.
C25_FailureEndsOneRunOnly ==
    \A s \in Slots :
        (/\ rcv[s].pc = "inrun" /\ run[s].pc = "failed"
         /\ rcv[s].idx < Len(rcv[s].alerts)
         /\ NextAlertLink(s) # RunLink(s))
        => ENABLED alert_receiver(s)

\* the active silences of the alert backend for link l
ActiveSilences(l) ==
    {i \in 1..Len(silences) :
        silences[i].state = "active" /\ <<silences[i].device, silences[i].interface>> = l}

\* C26: at any time at most one silence created by the workflows is active
\* for a link, under every interleaving of deliveries and runs.
C26_OneActiveSilencePerLink ==
    \A l \in Links : Cardinality(ActiveSilences(l)) <= 1

\* C27: is_already_quarantined recognises only the links whose present
\* administratively-down state comes from quarantine_side: an interface an
\* operator has shut down (after the system quarantined and restored it) is
\* not taken for quarantined, so a restore run leaves it alone.
C27_OperatorShutdownIsNotOurs ==
    \A l \in Links :
        (dev[l].admin = "down" /\ lastMut[l] = "operator") =>
            ~is_already_quarantined(dev, l[1], l[2])

\* C28: the silence a quarantine run creates is the one the cleanup of a
\* restore run for the same link looks for, whatever alert name and spelling
\* of the interface the two runs were called with: its matchers are
\* PeerInterfaceFlapping and the canonical link of the run, and a restore run
\* whose deletions all succeed leaves no silence of its link active.
C28_SilenceState ==
    \A s \in Slots :
        (run[s].flow = "quarantine" /\ run[s].silence_id # 0) =>
            /\ silences[run[s].silence_id].alertname = "PeerInterfaceFlapping"
            /\ <<silences[run[s].silence_id].device, silences[run[s].silence_id].interface>>
                  = RunLink(s)
            /\ RunLink(s) \in Links

C28_CleanupStep ==
    \A t \in Slots :
        (/\ run[t].flow = "restore" /\ run[t].pc = "expire" /\ run'[t].pc = "summary"
         /\ run'[t].deleted = run'[t].nDel)
        => /\ ActiveSilences(RunLink(t))' = {}
           /\ \A s \in Slots :
                 (/\ run[s].flow = "quarantine" /\ run[s].silence_id # 0
                  /\ RunLink(s) = RunLink(t))
                 => silences'[run[s].silence_id].state = "expired"

C28_CleanupMatchesSilence == []C28_SilenceState /\ [][C28_CleanupStep]_vars

C28_Witness ==
    \E s, t \in Slots :
        /\ run[s].flow = "quarantine" /\ run[s].alertname = "BgpDown"
        /\ run[s].silence_id # 0 /\ run[s].deleted = 0
        /\ run[t].flow = "restore" /\ run[t].alertname = "PeerInterfaceFlapping"
        /\ run[t].pc = "done" /\ run[t].deleted = 1
        /\ RunLink(s) = RunLink(t)
        /\ silences[run[s].silence_id].state = "expired"

\* run t failed for good after its quarantine_side and before its silence
FailedBeforeSilence(t) ==
    /\ run[t].flow = "quarantine" /\ run[t].pc = "failed"
    /\ run[t].nQuar = 1 /\ run[t].nSil = 0

\* C29: when a quarantine run has failed after quarantine_side and before
\* the silence, a quarantine run for the same link that makes its first call
\* afterwards, with the alert still firing and the link still quarantined,
\* goes on towards create_quarantine_silence: it does not take the branch
\* that returns without a silence.
C29_RetryStep ==
    \A s, t \in Slots :
        (/\ s # t /\ FailedBeforeSilence(t)
         /\ run[s].flow = "quarantine" /\ run[s].pc = "idem" /\ RunLink(s) = RunLink(t)
         /\ alert_active_in_am(amActive, "PeerInterfaceFlapping", run[s].device, run[s].interface)
         /\ is_already_quarantined(dev, run[s].device, run[s].interface)
         /\ ActiveSilences(RunLink(s)) = {}
         /\ run'[s] # run[s])
        => run'[s].pc \in {"fresh", "failed"}

C29_RetryCreatesSilence == [][C29_RetryStep]_vars

\* C30: a summary record states a status in SoT ("quarantined" for a
\* quarantine summary, "active" for a restore summary) only if the run has
\* patched the source of truth to that status; a run without
\* local_interface_id reports no status it did not write.
C30_SummaryReportsWrittenStatus ==
    \A s \in Slots :
        run[s].record \in {"quarantine", "restore"} =>
            SummarySoT(run[s].record) = run[s].sotWrote

====
